---- MODULE Spec2Model ----
(***************************************************************************)
(* Authorization and soft-delete lifecycle of Vichar records, their        *)
(* Collaborator rows and the Roles they refer to (vicharak-api).           *)
(*                                                                         *)
(* The database tables are the state; every HTTP handler of VicharViewSet  *)
(* and RoleViewSet is one action.  `response` holds the request that was   *)
(* served last and the outcome the handler produced for it.                *)
(***************************************************************************)
EXTENDS Integers, Sequences, FiniteSets, TLC

VARIABLES vichars, collaborators, roles, nextVicharId, nextRoleId, now,
          inflight, response

vars == <<vichars, collaborators, roles, nextVicharId, nextRoleId, now,
          inflight, response>>

(* ------------------------------ bounds --------------------------------- *)
MaxVichars == 1
MaxRoles == 2
MaxRows == 2
MaxClock == 2
MaxPermLen == 1
MaxInflight == 2

(* ------------------------------ domains -------------------------------- *)
Users == {"A", "B", "C"}
StaffUsers == {"A"}
Titles == {"t1"}
Bodies == {"b1"}
RoleNames == {"viewer"}
VicharIds == 1..MaxVichars
RoleIds == 1..MaxRoles
Times == 1..MaxClock

permissions ==
  {"VIEW_VICHAR", "EDIT_VICHAR", "DELETE_VICHAR", "ADD_COLLABORATOR",
   "REMOVE_COLLABORATOR", "VIEW_COLLABORATORS"}

(* A nullable column or an optional request field: <<>> or <<value>>. *)
NULL == <<>>
Some(x) == <<x>>
Val(o) == o[1]
Opt(S) == {NULL} \cup {Some(x) : x \in S}

PermLists == UNION {[1..k -> permissions] : k \in 0..MaxPermLen}

(* The writable fields of VicharSerializer: every model field but id and   *)
(* created_at.  A field that the request does not carry is NULL.           *)
VicharFields ==
  [title : Opt(Titles), body : Opt(Bodies), user : Opt(Users),
   updated_at : Opt(Opt({now})), deleted_at : Opt(Opt({now}))]

(* ------------------------------ queries -------------------------------- *)
(* Mutant of VicharRows: the reverse relation found empty. *)
VicharRows_none(vid) == {}

(* The rows of one vichar; the rows of one (vichar, collaborator) pair. *)
VicharRows(vid) == {c \in collaborators : c.vichar = vid}

(* Mutant of PairRows: the lookup filtered by vichar only. *)
PairRows_of_vichar(vid, u) == VicharRows(vid)

PairRows(vid, u) ==
  {c \in collaborators : c.vichar = vid /\ c.collaborator = u}

(* QuerySet.first(): the row with the smallest primary key.  Primary keys  *)
(* are auto-increments, so among the rows of one pair the smallest key is  *)
(* the row inserted first; `nth` is a row's rank of insertion in its pair. *)
First(rows) == CHOOSE c \in rows : \A d \in rows : c.nth <= d.nth

NextNth(vid, u) ==
  IF PairRows(vid, u) = {} THEN 1
  ELSE 1 + (CHOOSE n \in {c.nth : c \in PairRows(vid, u)} :
              \A c \in PairRows(vid, u) : c.nth <= n)

SeqContains(s, x) == \E i \in 1..Len(s) : s[i] = x

(* CollaboratorSerializer.get_permissions reads obj.role.id: it raises     *)
(* AttributeError when the role reference is null.                         *)
GetPermissionsRaises(c) == c.role = NULL

(* Mutant of get_permissions: a copy taken when the role had no           *)
(* permissions, instead of the role as it is now.                          *)
get_permissions_stale(c) == << >>

get_permissions(c) == roles[Val(c.role)].permissions

(* Mutant of validate_collaborator: any row grants every permission. *)
validate_collaborator_any_row(vid, u, permission) ==
  IF PairRows(vid, u) = {} THEN "deny"
  ELSE IF GetPermissionsRaises(First(PairRows(vid, u))) THEN "raise"
  ELSE "allow"

(* VicharSerializer.validate_collaborator: "deny" without a row, "raise"   *)
(* when serializing the row raises, else membership of the permission.     *)
validate_collaborator(vid, u, permission) ==
  IF PairRows(vid, u) = {} THEN "deny"
  ELSE LET c == First(PairRows(vid, u)) IN
       IF GetPermissionsRaises(c) THEN "raise"
       ELSE IF SeqContains(get_permissions(c), permission) THEN "allow"
       ELSE "deny"

(* Mutant of IsOwnerOf: the user object compared with a primary key. *)
IsOwnerOf_never(vid, u) == FALSE

(* is_owner = instance.user == request.user *)
IsOwnerOf(vid, u) == vichars[vid].user = u

(* Mutant of get_queryset: the filter on deleted_at left out. *)
get_queryset_with_deleted(u) ==
  {v \in DOMAIN vichars : vichars[v].user = u \/ PairRows(v, u) # {}}

(* Vichar.objects.filter(Q(user) | Q(collaborators__collaborator), and    *)
(* deleted_at=None): the filter joins each vichar with its collaborator    *)
(* rows, so a vichar comes once for every joined row that satisfies the    *)
(* condition (once, on its own columns, when it has no rows).  The result  *)
(* maps each vichar found to the number of times it comes.                 *)
filter_join(u) ==
  LET hits(v) ==
        IF VicharRows(v) = {}
        THEN IF vichars[v].user = u THEN 1 ELSE 0
        ELSE Cardinality({c \in VicharRows(v) :
                           vichars[v].user = u \/ c.collaborator = u})
      found == {v \in DOMAIN vichars :
                  vichars[v].deleted_at = NULL /\ hits(v) > 0}
  IN [v \in found |-> hits(v)]

(* Mutant of queryset_distinct: the call left out. *)
queryset_distinct_left_out(q) == q

(* QuerySet.distinct() *)
queryset_distinct(q) == [v \in DOMAIN q |-> 1]

(* GET /vichars/ : the list of get_queryset(). *)
listVisible(u) == queryset_distinct(filter_join(u))

(* VicharViewSet.get_queryset: what get_object() can find for the actor. *)
get_queryset(u) == DOMAIN listVisible(u)

(* Mutant of list_deleted: every vichar, whatever its deleted_at. *)
list_deleted_unfiltered == DOMAIN vichars

(* list_deleted: no ownership filter. *)
list_deleted == {v \in DOMAIN vichars : vichars[v].deleted_at # NULL}

(* VicharSerializer.get_collaborators serializes every row of the vichar   *)
(* before it looks at the requester, so one null role raises for all.      *)
RenderRaises(cs, vid) ==
  \E c \in cs : c.vichar = vid /\ c.role = NULL

Resp(op, actor, vid, target, role, kind, detail) ==
  [op |-> op, actor |-> actor, vichar |-> vid, target |-> target,
   kind |-> kind, detail |-> detail]

(* No request is being served. *)
Idle == Resp("none", NULL, NULL, NULL, NULL, "ok", "")

(* ------------------------------ initial state -------------------------- *)
Init ==
  /\ vichars = <<>>
  /\ collaborators = {}
  /\ roles = <<>>
  /\ nextVicharId = 1
  /\ nextRoleId = 1
  /\ now = 1
  /\ inflight = {}
  /\ response = Idle

(* timezone.now() advances between requests. *)
Tick ==
  /\ response = Idle
  /\ now < MaxClock
  /\ now' = now + 1
  /\ UNCHANGED <<vichars, collaborators, roles, nextVicharId, nextRoleId, inflight, response>>

(* ------------------------------ Vichar handlers ------------------------ *)
DbUnchanged ==
  UNCHANGED <<vichars, collaborators, roles, nextVicharId, nextRoleId, now, inflight>>

OnlyVichars ==
  UNCHANGED <<collaborators, roles, nextVicharId, nextRoleId, now, inflight>>

(* ModelSerializer.update: setattr for every validated field. *)
ApplyFields(obj, f) ==
  [obj EXCEPT
     !.title = IF f.title = NULL THEN @ ELSE Val(f.title),
     !.body = IF f.body = NULL THEN @ ELSE Val(f.body),
     !.user = IF f.user = NULL THEN @ ELSE Val(f.user),
     !.updated_at = IF f.updated_at = NULL THEN @ ELSE Val(f.updated_at),
     !.deleted_at = IF f.deleted_at = NULL THEN @ ELSE Val(f.deleted_at)]

(* POST /vichars/ : VicharSerializer.create.  Vichar.objects.create(user=  *)
(* user, **validated_data) raises TypeError when the request carries user. *)
CreateVichar(actor, f) ==
  /\ nextVicharId <= MaxVichars
  /\ IF f.title = NULL \/ f.body = NULL THEN
       /\ response' = Resp("create", Some(actor), NULL, NULL, NULL,
                           "validation", "This field is required.")
       /\ DbUnchanged
     ELSE IF f.user # NULL THEN
       /\ response' = Resp("create", Some(actor), NULL, NULL, NULL,
                           "error", "TypeError")
       /\ DbUnchanged
     ELSE
       /\ vichars' = (nextVicharId :>
            [user |-> actor, title |-> Val(f.title), body |-> Val(f.body),
             updated_at |-> IF f.updated_at = NULL THEN NULL
                            ELSE Val(f.updated_at),
             deleted_at |-> IF f.deleted_at = NULL THEN NULL
                            ELSE Val(f.deleted_at)]) @@ vichars
       /\ nextVicharId' = nextVicharId + 1
       /\ response' = Resp("create", Some(actor), Some(nextVicharId), NULL,
                           NULL, "ok", "")
       /\ UNCHANGED <<collaborators, roles, nextRoleId,
                      now, inflight>>

(* GET /vichars/{pk}/ : get_object, then VicharSerializer.data with        *)
(* get_collaborators.                                                      *)
RetrieveVichar(actor, vid) ==
  /\ DbUnchanged
  /\ IF vid \notin get_queryset(actor) THEN
       response' = Resp("retrieve", Some(actor), Some(vid), NULL, NULL,
                        "notfound", "Not found.")
     ELSE IF RenderRaises(collaborators, vid) THEN
       response' = Resp("retrieve", Some(actor), Some(vid), NULL, NULL,
                        "error", "AttributeError")
     ELSE IF \/ IsOwnerOf(vid, actor)
             \/ validate_collaborator(vid, actor, "VIEW_COLLABORATORS")
                  = "allow" THEN
       response' = Resp("retrieve", Some(actor), Some(vid), NULL, NULL,
                        "ok", "collaborators listed")
     ELSE
       response' = Resp("retrieve", Some(actor), Some(vid), NULL, NULL,
                        "ok", "collaborators withheld")

(* PUT/PATCH /vichars/{pk}/ : get_object, VicharSerializer.update, then    *)
(* the response renders the saved instance.                                *)
UpdateVichar(actor, vid, f) ==
  /\ OnlyVichars
  /\ IF vid \notin get_queryset(actor) THEN
       /\ response' = Resp("update", Some(actor), Some(vid), NULL, NULL,
                           "notfound", "Not found.")
       /\ UNCHANGED vichars
     ELSE LET has_permission ==
                validate_collaborator(vid, actor, "EDIT_VICHAR") IN
       IF has_permission = "raise" THEN
         /\ response' = Resp("update", Some(actor), Some(vid), NULL, NULL,
                             "error", "AttributeError")
         /\ UNCHANGED vichars
       ELSE IF IsOwnerOf(vid, actor) \/ has_permission = "allow" THEN
         /\ vichars' = [vichars EXCEPT ![vid] =
              ApplyFields([@ EXCEPT !.updated_at = Some(now)], f)]
         /\ response' =
              IF RenderRaises(collaborators, vid)
              THEN Resp("update", Some(actor), Some(vid), NULL, NULL,
                        "error", "AttributeError")
              ELSE Resp("update", Some(actor), Some(vid), NULL, NULL,
                        "ok", "")
       ELSE
         /\ response' = Resp("update", Some(actor), Some(vid), NULL, NULL,
                "validation",
                "You do not have permission to edit this vichar.")
         /\ UNCHANGED vichars

(* DELETE /vichars/{pk}/ : destroy -> VicharSerializer.delete ->           *)
(* Vichar.delete() without the permanent flag.                             *)
SoftDelete(actor, vid) ==
  /\ OnlyVichars
  /\ IF vid \notin get_queryset(actor) THEN
       /\ response' = Resp("softDelete", Some(actor), Some(vid), NULL, NULL,
                           "notfound", "Not found.")
       /\ UNCHANGED vichars
     ELSE LET has_permission ==
                validate_collaborator(vid, actor, "DELETE_VICHAR") IN
       IF has_permission = "raise" THEN
         /\ response' = Resp("softDelete", Some(actor), Some(vid), NULL,
                             NULL, "error", "AttributeError")
         /\ UNCHANGED vichars
       ELSE IF IsOwnerOf(vid, actor) \/ has_permission = "allow" THEN
         /\ vichars' = [vichars EXCEPT ![vid].deleted_at = Some(now)]
         /\ response' = Resp("softDelete", Some(actor), Some(vid), NULL,
                             NULL, "ok", "Vichar deleted successfully.")
       ELSE
         /\ response' = Resp("softDelete", Some(actor), Some(vid), NULL,
                NULL, "validation",
                "You do not have permission to delete this vichar.")
         /\ UNCHANGED vichars

(* POST /vichars/{pk}/restore/ *)
Restore(actor, vid) ==
  /\ OnlyVichars
  /\ IF vid \notin list_deleted THEN
       /\ response' = Resp("restore", Some(actor), Some(vid), NULL, NULL,
                           "notfound", "Vichar not found.")
       /\ UNCHANGED vichars
     ELSE LET has_permission ==
                validate_collaborator(vid, actor, "DELETE_VICHAR") IN
       IF has_permission = "raise" THEN
         /\ response' = Resp("restore", Some(actor), Some(vid), NULL, NULL,
                             "error", "AttributeError")
         /\ UNCHANGED vichars
       ELSE IF ~IsOwnerOf(vid, actor) /\ has_permission # "allow" THEN
         /\ response' = Resp("restore", Some(actor), Some(vid), NULL, NULL,
                "forbidden",
                "You do not have permission to restore this vichar.")
         /\ UNCHANGED vichars
       ELSE
         /\ vichars' = [vichars EXCEPT ![vid].deleted_at = NULL]
         /\ response' =
              IF RenderRaises(collaborators, vid)
              THEN Resp("restore", Some(actor), Some(vid), NULL, NULL,
                        "error", "AttributeError")
              ELSE Resp("restore", Some(actor), Some(vid), NULL, NULL,
                        "ok", "")

(* DELETE /vichars/{pk}/delete_permanently/ : Vichar.delete(permanent=True)*)
(* removes the row and, by on_delete=CASCADE, its Collaborator rows in one *)
(* transaction.                                                            *)
DeletePermanently(actor, vid) ==
  /\ UNCHANGED <<roles, nextVicharId, nextRoleId, now,
                 inflight>>
  /\ IF vid \notin list_deleted THEN
       /\ response' = Resp("permanentDelete", Some(actor), Some(vid), NULL,
                           NULL, "notfound", "Vichar not found.")
       /\ UNCHANGED <<vichars, collaborators>>
     ELSE LET has_permission ==
                validate_collaborator(vid, actor, "DELETE_VICHAR") IN
       IF has_permission = "raise" THEN
         /\ response' = Resp("permanentDelete", Some(actor), Some(vid),
                             NULL, NULL, "error", "AttributeError")
         /\ UNCHANGED <<vichars, collaborators>>
       ELSE IF ~IsOwnerOf(vid, actor) /\ has_permission # "allow" THEN
         /\ response' = Resp("permanentDelete", Some(actor), Some(vid),
                NULL, NULL, "forbidden",
                "You do not have permission to delete this vichar.")
         /\ UNCHANGED <<vichars, collaborators>>
       ELSE
         /\ vichars' = [v \in DOMAIN vichars \ {vid} |-> vichars[v]]
         /\ collaborators' = collaborators \ VicharRows(vid)
         /\ response' = Resp("permanentDelete", Some(actor), Some(vid),
                             NULL, NULL, "ok", "Vichar deleted permanently.")

(* ------------------------------ Collaborator handlers ------------------ *)
OnlyCollaborators ==
  UNCHANGED <<vichars, roles, nextVicharId, nextRoleId, now, inflight>>

(* Mutant of AddCollaboratorOutcome: the owner-as-collaborator check made  *)
(* after the permission check.                                             *)
AddCollaboratorOutcome_owner_check_late(actor, vid, target, rid) ==
  IF vid \notin get_queryset(actor) THEN <<"notfound", "Not found.">>
  ELSE IF rid \notin DOMAIN roles THEN
    <<"validation", "Invalid pk - object does not exist.">>
  ELSE LET has_permission ==
             validate_collaborator(vid, actor, "ADD_COLLABORATOR") IN
    IF has_permission = "raise" THEN <<"error", "AttributeError">>
    ELSE IF ~IsOwnerOf(vid, actor) /\ has_permission # "allow" THEN
      <<"validation", "You do not have permission to add collaborator.">>
    ELSE IF vichars[vid].user = target THEN
      <<"validation", "Owner cannot be a collaborator.">>
    ELSE IF PairRows(vid, target) # {} THEN
      <<"validation", "Collaborator already exists.">>
    ELSE <<"ok", "Collaborator added successfully.">>

(* Mutant of AddCollaboratorOutcome: no existence check before the insert. *)
AddCollaboratorOutcome_no_exists_check(actor, vid, target, rid) ==
  IF vid \notin get_queryset(actor) THEN <<"notfound", "Not found.">>
  ELSE IF rid \notin DOMAIN roles THEN
    <<"validation", "Invalid pk - object does not exist.">>
  ELSE IF vichars[vid].user = target THEN
    <<"validation", "Owner cannot be a collaborator.">>
  ELSE LET has_permission ==
             validate_collaborator(vid, actor, "ADD_COLLABORATOR") IN
    IF has_permission = "raise" THEN <<"error", "AttributeError">>
    ELSE IF ~IsOwnerOf(vid, actor) /\ has_permission # "allow" THEN
      <<"validation", "You do not have permission to add collaborator.">>
    ELSE <<"ok", "Collaborator added successfully.">>

(* add_collaborator up to the point of the insert: get_object, is_valid,   *)
(* then AddCollaboratorSerializer.create down to its existence check.      *)
AddCollaboratorOutcome(actor, vid, target, rid) ==
  IF vid \notin get_queryset(actor) THEN <<"notfound", "Not found.">>
  ELSE IF rid \notin DOMAIN roles THEN
    <<"validation", "Invalid pk - object does not exist.">>
  ELSE IF vichars[vid].user = target THEN
    <<"validation", "Owner cannot be a collaborator.">>
  ELSE LET has_permission ==
             validate_collaborator(vid, actor, "ADD_COLLABORATOR") IN
    IF has_permission = "raise" THEN <<"error", "AttributeError">>
    ELSE IF ~IsOwnerOf(vid, actor) /\ has_permission # "allow" THEN
      <<"validation", "You do not have permission to add collaborator.">>
    ELSE IF PairRows(vid, target) # {} THEN
      <<"validation", "Collaborator already exists.">>
    ELSE <<"ok", "Collaborator added successfully.">>

(* Mutant of NewCollaborator: owner taken from the collaborator field. *)
NewCollaborator_owner_is_target(vid, owner, target, rid) ==
  [vichar |-> vid, owner |-> target, collaborator |-> target,
   role |-> Some(rid), nth |-> NextNth(vid, target)]

(* Collaborator.objects.create with validated_data, owner = vichar.user. *)
NewCollaborator(vid, owner, target, rid) ==
  [vichar |-> vid, owner |-> owner, collaborator |-> target,
   role |-> Some(rid), nth |-> NextNth(vid, target)]

(* POST /vichars/{pk}/add_collaborator/ served without interleaving. *)
AddCollaborator(actor, vid, target, rid) ==
  LET out == AddCollaboratorOutcome(actor, vid, target, rid) IN
  /\ out[1] = "ok" => Cardinality(collaborators) < MaxRows
  /\ response' = Resp("addCollaborator", Some(actor), Some(vid),
                      Some(target), Some(rid), out[1], out[2])
  /\ IF out[1] = "ok" THEN
       collaborators' = collaborators \cup
            {NewCollaborator(vid, vichars[vid].user, target, rid)}
     ELSE UNCHANGED collaborators
  /\ OnlyCollaborators

(* The same handler as two database steps, so that requests interleave:    *)
(* the existence check (a SELECT) ...                                      *)
AddCollaboratorCheck(actor, vid, target, rid) ==
  /\ Cardinality(inflight) < MaxInflight
  /\ AddCollaboratorOutcome(actor, vid, target, rid)[1] = "ok"
  /\ inflight' = inflight \cup
       {[no |-> CHOOSE n \in 1..MaxInflight :
                  /\ \A r \in inflight : r.no # n
                  /\ \A m \in 1..(n - 1) : \E r \in inflight : r.no = m,
         actor |-> actor, vichar |-> vid, owner |-> vichars[vid].user,
         target |-> target, role |-> rid]}
  /\ UNCHANGED <<vichars, collaborators, roles, nextVicharId, nextRoleId, now, response>>

(* ... and the INSERT, which the foreign keys to Vichar and Role guard but *)
(* no uniqueness constraint does.                                          *)
AddCollaboratorInsert(req) ==
  /\ req \in inflight
  /\ Cardinality(collaborators) < MaxRows
  /\ inflight' = inflight \ {req}
  /\ IF req.vichar \in DOMAIN vichars /\ req.role \in DOMAIN roles THEN
       /\ collaborators' = collaborators \cup
            {NewCollaborator(req.vichar, req.owner, req.target, req.role)}
       /\ response' = Resp("addCollaborator", Some(req.actor),
            Some(req.vichar), Some(req.target), Some(req.role), "ok",
            "Collaborator added successfully.")
     ELSE
       /\ UNCHANGED collaborators
       /\ response' = Resp("addCollaborator", Some(req.actor),
            Some(req.vichar), Some(req.target), Some(req.role), "error",
            "IntegrityError")
  /\ UNCHANGED <<vichars, roles, nextVicharId, nextRoleId, now>>

(* PUT /vichars/{pk}/update_collaborator/ : AddCollaboratorSerializer      *)
(* .update; Collaborator.objects.get raises MultipleObjectsReturned on     *)
(* more than one row.                                                      *)
UpdateCollaborator(actor, vid, target, rid) ==
  /\ UNCHANGED <<vichars, roles, nextVicharId, nextRoleId, now, inflight>>
  /\ IF vid \notin get_queryset(actor) THEN
       /\ response' = Resp("updateCollaborator", Some(actor), Some(vid),
            Some(target), Some(rid), "notfound", "Not found.")
       /\ UNCHANGED collaborators
     ELSE IF rid \notin DOMAIN roles THEN
       /\ response' = Resp("updateCollaborator", Some(actor), Some(vid),
            Some(target), Some(rid), "validation",
            "Invalid pk - object does not exist.")
       /\ UNCHANGED collaborators
     ELSE IF PairRows(vid, target) = {} THEN
       /\ response' = Resp("updateCollaborator", Some(actor), Some(vid),
            Some(target), Some(rid), "notfound",
            "Collaborator does not exist.")
       /\ UNCHANGED collaborators
     ELSE IF Cardinality(PairRows(vid, target)) > 1 THEN
       /\ response' = Resp("updateCollaborator", Some(actor), Some(vid),
            Some(target), Some(rid), "error", "MultipleObjectsReturned")
       /\ UNCHANGED collaborators
     ELSE
       /\ collaborators' =
            {IF c \in PairRows(vid, target)
             THEN [c EXCEPT !.role = Some(rid)] ELSE c : c \in collaborators}
       /\ response' = Resp("updateCollaborator", Some(actor), Some(vid),
            Some(target), Some(rid), "ok",
            "Collaborator updated successfully.")

(* DELETE /vichars/{pk}/remove_collaborator/ *)
RemoveCollaborator(actor, vid, target) ==
  /\ UNCHANGED <<vichars, roles, nextVicharId, nextRoleId, now, inflight>>
  /\ IF vid \notin get_queryset(actor) THEN
       /\ response' = Resp("removeCollaborator", Some(actor), Some(vid),
            Some(target), NULL, "notfound", "Not found.")
       /\ UNCHANGED collaborators
     ELSE LET has_permission ==
                validate_collaborator(vid, actor, "REMOVE_COLLABORATOR") IN
       IF has_permission = "raise" THEN
         /\ response' = Resp("removeCollaborator", Some(actor), Some(vid),
              Some(target), NULL, "error", "AttributeError")
         /\ UNCHANGED collaborators
       ELSE IF ~IsOwnerOf(vid, actor) /\ has_permission # "allow" THEN
         /\ response' = Resp("removeCollaborator", Some(actor), Some(vid),
              Some(target), NULL, "forbidden",
              "You do not have permission to remove collaborators.")
         /\ UNCHANGED collaborators
       ELSE IF PairRows(vid, target) = {} THEN
         /\ response' = Resp("removeCollaborator", Some(actor), Some(vid),
              Some(target), NULL, "notfound", "Not found.")
         /\ UNCHANGED collaborators
       ELSE IF Cardinality(PairRows(vid, target)) > 1 THEN
         /\ response' = Resp("removeCollaborator", Some(actor), Some(vid),
              Some(target), NULL, "error", "MultipleObjectsReturned")
         /\ UNCHANGED collaborators
       ELSE
         /\ collaborators' = collaborators \ PairRows(vid, target)
         /\ response' = Resp("removeCollaborator", Some(actor), Some(vid),
              Some(target), NULL, "ok", "Collaborator removed successfully.")

(* ------------------------------ Role handlers -------------------------- *)
OnlyRoles ==
  UNCHANGED <<vichars, collaborators, nextVicharId, now,
              inflight>>

(* Mutant of RoleSave: the list stored as it was given. *)
RoleSave_as_given(perms) == {perms}

(* Role.save: self.permissions = list(set(self.permissions)).  The order   *)
(* of a Python set of strings is not fixed, so every ordering of the       *)
(* distinct elements is a possible stored list.                            *)
RoleSave(perms) ==
  LET distinct == {perms[i] : i \in 1..Len(perms)} IN
  {q \in [1..Cardinality(distinct) -> distinct] :
     \A i, j \in 1..Cardinality(distinct) : q[i] = q[j] => i = j}

(* Mutant of check_staff_permission: is_staff never looked at. *)
check_staff_permission_skipped(actor) == TRUE

(* RoleViewSet.check_staff_permission *)
check_staff_permission(actor) == actor \in StaffUsers

(* RoleSerializer.name carries a UniqueValidator (the instance itself is   *)
(* excluded on update).                                                    *)
NameTaken(name, except) ==
  \E r \in DOMAIN roles \ except : roles[r].name = name

(* POST /roles/ : is_valid, then perform_create. *)
CreateRole(actor, name, perms) ==
  /\ nextRoleId <= MaxRoles
  /\ OnlyRoles
  /\ IF NameTaken(name, {}) THEN
       /\ response' = Resp("createRole", Some(actor), NULL, NULL, NULL,
                           "validation", "This field must be unique.")
       /\ UNCHANGED <<roles, nextRoleId>>
     ELSE IF ~check_staff_permission(actor) THEN
       /\ response' = Resp("createRole", Some(actor), NULL, NULL, NULL,
            "forbidden", "Only staff users can perform this action.")
       /\ UNCHANGED <<roles, nextRoleId>>
     ELSE
       /\ \E stored \in RoleSave(perms) :
            roles' = (nextRoleId :> [name |-> name, permissions |-> stored])
                       @@ roles
       /\ nextRoleId' = nextRoleId + 1
       /\ response' = Resp("createRole", Some(actor), NULL, NULL,
                           Some(nextRoleId), "ok", "")

(* PUT/PATCH /roles/{pk}/ : get_object, is_valid, then perform_update. *)
UpdateRole(actor, rid, name, perms) ==
  /\ OnlyRoles
  /\ UNCHANGED nextRoleId
  /\ IF rid \notin DOMAIN roles THEN
       /\ response' = Resp("updateRole", Some(actor), NULL, NULL, Some(rid),
                           "notfound", "Not found.")
       /\ UNCHANGED roles
     ELSE IF NameTaken(name, {rid}) THEN
       /\ response' = Resp("updateRole", Some(actor), NULL, NULL, Some(rid),
                           "validation", "This field must be unique.")
       /\ UNCHANGED roles
     ELSE IF ~check_staff_permission(actor) THEN
       /\ response' = Resp("updateRole", Some(actor), NULL, NULL, Some(rid),
            "forbidden", "Only staff users can perform this action.")
       /\ UNCHANGED roles
     ELSE
       /\ \E stored \in RoleSave(perms) :
            roles' = [roles EXCEPT ![rid] =
                        [name |-> name, permissions |-> stored]]
       /\ response' = Resp("updateRole", Some(actor), NULL, NULL, Some(rid),
                           "ok", "")

(* DELETE /roles/{pk}/ : Collaborator.role is on_delete=SET_NULL. *)
DeleteRole(actor, rid) ==
  /\ UNCHANGED <<vichars, nextVicharId, nextRoleId, now,
                 inflight>>
  /\ IF rid \notin DOMAIN roles THEN
       /\ response' = Resp("deleteRole", Some(actor), NULL, NULL, Some(rid),
                           "notfound", "Not found.")
       /\ UNCHANGED <<roles, collaborators>>
     ELSE IF ~check_staff_permission(actor) THEN
       /\ response' = Resp("deleteRole", Some(actor), NULL, NULL, Some(rid),
            "forbidden", "Only staff users can perform this action.")
       /\ UNCHANGED <<roles, collaborators>>
     ELSE
       /\ roles' = [r \in DOMAIN roles \ {rid} |-> roles[r]]
       /\ collaborators' =
            {IF c.role = Some(rid) THEN [c EXCEPT !.role = NULL] ELSE c :
               c \in collaborators}
       /\ response' = Resp("deleteRole", Some(actor), NULL, NULL, Some(rid),
                           "ok", "")

(* ------------------------------ specifications ------------------------- *)
(* The response reaches the client; the next request can be served. *)
Deliver ==
  /\ response # Idle
  /\ response' = Idle
  /\ UNCHANGED <<vichars, collaborators, roles, nextVicharId, nextRoleId,
                 now, inflight>>

(* What a request to PUT/PATCH carries besides the title: at most one of   *)
(* the other writable fields.                                              *)
UpdateFields ==
  {f \in VicharFields :
     /\ f.body = NULL
     /\ Cardinality({k \in {"user", "updated_at", "deleted_at"} :
                       f[k] # NULL}) <= 1}

CreateFields ==
  {f \in VicharFields :
     /\ f.body # NULL
     /\ Cardinality({k \in {"user", "updated_at", "deleted_at"} :
                       f[k] # NULL}) <= 1}

(* One request at a time: every handler runs to completion. *)
Next ==
  \/ Tick
  \/ Deliver
  \/ response = Idle /\
       \E actor \in Users, f \in CreateFields :
         CreateVichar(actor, f)
  \/ response = Idle /\
       \E actor \in Users, vid \in VicharIds :
         RetrieveVichar(actor, vid)
  \/ response = Idle /\
       \E actor \in Users, vid \in VicharIds, f \in UpdateFields :
         UpdateVichar(actor, vid, f)
  \/ response = Idle /\
       \E actor \in Users, vid \in VicharIds :
         SoftDelete(actor, vid)
  \/ response = Idle /\
       \E actor \in Users, vid \in VicharIds :
         Restore(actor, vid)
  \/ response = Idle /\
       \E actor \in Users, vid \in VicharIds :
         DeletePermanently(actor, vid)
  \/ response = Idle /\
       \E actor \in Users, vid \in VicharIds, target \in Users,
         rid \in RoleIds :
         AddCollaborator(actor, vid, target, rid)
  \/ response = Idle /\
       \E actor \in Users, vid \in VicharIds, target \in Users,
         rid \in RoleIds :
         UpdateCollaborator(actor, vid, target, rid)
  \/ response = Idle /\
       \E actor \in Users, vid \in VicharIds, target \in Users :
         RemoveCollaborator(actor, vid, target)
  \/ response = Idle /\
       \E actor \in Users, name \in RoleNames, perms \in PermLists :
         CreateRole(actor, name, perms)
  \/ response = Idle /\
       \E actor \in Users, rid \in RoleIds, name \in RoleNames,
         perms \in PermLists :
         UpdateRole(actor, rid, name, perms)
  \/ response = Idle /\
       \E actor \in Users, rid \in RoleIds :
         DeleteRole(actor, rid)

Spec == Init /\ [][Next]_vars

(* Concurrent add_collaborator requests: the check and the insert of one   *)
(* request are separate steps that other requests may come between.  The   *)
(* other handlers here are the ones that create and remove what the two    *)
(* steps read: the vichar, the role and the rows.                          *)
NextRace ==
  \/ Deliver
  \/ response = Idle /\
       \E actor \in Users, f \in CreateFields :
         CreateVichar(actor, f)
  \/ response = Idle /\
       \E actor \in Users, name \in RoleNames, perms \in PermLists :
         CreateRole(actor, name, perms)
  \/ response = Idle /\
       \E actor \in Users, rid \in RoleIds :
         DeleteRole(actor, rid)
  \/ response = Idle /\
       \E actor \in Users, vid \in VicharIds :
         SoftDelete(actor, vid)
  \/ response = Idle /\
       \E actor \in Users, vid \in VicharIds :
         DeletePermanently(actor, vid)
  \/ response = Idle /\
       \E actor \in Users, vid \in VicharIds, target \in Users :
         RemoveCollaborator(actor, vid, target)
  \/ response = Idle /\
       \E actor \in Users, vid \in VicharIds, target \in Users,
         rid \in RoleIds :
         AddCollaboratorCheck(actor, vid, target, rid)
  \/ response = Idle /\
       \E req \in inflight :
         AddCollaboratorInsert(req)

SpecRace == Init /\ [][NextRace]_vars

(* Role requests alone, with permission lists long enough to repeat an     *)
(* element: what Role.save stores for every such input.                    *)
MaxPermInput == 3

PermInputs ==
  UNION {[1..k -> {"VIEW_VICHAR", "EDIT_VICHAR"}] : k \in 0..MaxPermInput}

NextRoleSave ==
  \/ Deliver
  \/ response = Idle /\
       \E actor \in Users, name \in RoleNames, perms \in PermInputs :
         CreateRole(actor, name, perms)
  \/ response = Idle /\
       \E actor \in Users, rid \in RoleIds, name \in RoleNames,
          perms \in PermInputs :
         UpdateRole(actor, rid, name, perms)
  \/ response = Idle /\
       \E actor \in Users, rid \in RoleIds :
         DeleteRole(actor, rid)

SpecRoleSave == Init /\ [][NextRoleSave]_vars

(* ====================== claims ========================================= *)
(* What the claims say in their own terms, read off the tables. *)
OwnerOf(v, u) == v \in DOMAIN vichars /\ vichars[v].user = u

RolePermits(roleRef, P) ==
  /\ roleRef # NULL
  /\ Val(roleRef) \in DOMAIN roles
  /\ \E i \in DOMAIN roles[Val(roleRef)].permissions :
       roles[Val(roleRef)].permissions[i] = P

(* The row of the pair (the one with the lowest primary key, should the   *)
(* pair have several) has a role whose list contains P.                    *)
Holds(v, u, P) ==
  \E c \in collaborators :
    /\ c.vichar = v /\ c.collaborator = u
    /\ \A d \in collaborators :
         (d.vichar = v /\ d.collaborator = u) => c.nth <= d.nth
    /\ RolePermits(c.role, P)

HasNullRole(v, u) ==
  \E c \in collaborators :
    c.vichar = v /\ c.collaborator = u /\ c.role = NULL

IsCollaborator(v, u) ==
  \E c \in collaborators : c.vichar = v /\ c.collaborator = u

Active(v) == v \in DOMAIN vichars /\ vichars[v].deleted_at = NULL

PermissionMessages ==
  {"You do not have permission to edit this vichar.",
   "You do not have permission to delete this vichar.",
   "You do not have permission to restore this vichar.",
   "You do not have permission to add collaborator.",
   "You do not have permission to remove collaborators.",
   "collaborators withheld"}

(* The response refuses the request for lack of permission. *)
Denied(r) == r.detail \in PermissionMessages

GatedOps ==
  {"update", "softDelete", "restore", "permanentDelete", "addCollaborator",
   "removeCollaborator", "retrieve"}

Database == <<vichars, collaborators, roles>>

(* C1: a request of a gated operation made by the owner of the vichar is   *)
(* never answered with a permission refusal, whatever rows exist.          *)
C1_OwnerNeverRefused ==
  [][(/\ response'.op \in GatedOps
      /\ response'.vichar # NULL
      /\ OwnerOf(Val(response'.vichar), Val(response'.actor)))
     => ~Denied(response')]_vars

C1_Witness ==
  /\ response.op = "removeCollaborator"
  /\ response.kind = "ok"
  /\ OwnerOf(Val(response.vichar), Val(response.actor))
  /\ collaborators # {}

(* C2: for a non-owner the permission check allows exactly when a row of   *)
(* (vichar, actor) exists whose role lists the permission string, and      *)
(* denies when there is no row.                                            *)
C2_PermissionCheck ==
  \A v \in DOMAIN vichars, u \in Users, P \in permissions :
    ~OwnerOf(v, u) =>
      /\ (validate_collaborator(v, u, P) = "allow") <=> Holds(v, u, P)
      /\ ~IsCollaborator(v, u) => validate_collaborator(v, u, P) = "deny"

C2_Witness ==
  /\ response.op = "update"
  /\ response.kind = "ok"
  /\ ~OwnerOf(Val(response.vichar), Val(response.actor))
  /\ Holds(Val(response.vichar), Val(response.actor), "EDIT_VICHAR")
  /\ ~Holds(Val(response.vichar), Val(response.actor), "DELETE_VICHAR")

(* C3: a gated request by a collaborator whose role reference is null is   *)
(* answered with a permission refusal and changes nothing.                 *)
C3_NullRoleIsDenied ==
  [][(/\ response'.op \in GatedOps
      /\ response'.vichar # NULL
      /\ Val(response'.vichar) \in DOMAIN vichars
      /\ ~OwnerOf(Val(response'.vichar), Val(response'.actor))
      /\ HasNullRole(Val(response'.vichar), Val(response'.actor))
      /\ response'.kind # "notfound")
     => Denied(response') /\ UNCHANGED Database]_vars

(* C5: the owner of a vichar never changes. *)
C5_OwnerImmutable ==
  [][\A v \in DOMAIN vichars :
       v \in DOMAIN vichars' => vichars'[v].user = vichars[v].user]_vars

(* C6: no Collaborator row names the current owner of its vichar as the    *)
(* collaborator.                                                           *)
C6_OwnerNotCollaborator ==
  \A c \in collaborators :
    c.vichar \in DOMAIN vichars => vichars[c.vichar].user # c.collaborator

(* C4 as stated: an update changes the vichar only for the owner or a      *)
(* holder of EDIT_VICHAR, and every other actor gets a permission refusal  *)
(* that changes nothing.                                                   *)
C4_OthersAreDenied ==
  [][response'.op = "update" =>
       LET a == Val(response'.actor)
           v == Val(response'.vichar) IN
       /\ vichars' # vichars => OwnerOf(v, a) \/ Holds(v, a, "EDIT_VICHAR")
       /\ (v \in DOMAIN vichars /\ ~OwnerOf(v, a)
             /\ ~Holds(v, a, "EDIT_VICHAR"))
            => Denied(response') /\ UNCHANGED Database]_vars

(* C4 amended: an update changes the vichar only for the owner or a holder *)
(* of EDIT_VICHAR; for every other actor nothing changes, and the answer   *)
(* is the permission refusal for a collaborator whose role lacks           *)
(* EDIT_VICHAR, a server error for a collaborator whose role is null, and  *)
(* not-found for an actor who is no collaborator or when the vichar is     *)
(* soft-deleted.                                                           *)
C4_UpdateGate ==
  [][response'.op = "update" =>
       LET a == Val(response'.actor)
           v == Val(response'.vichar) IN
       /\ vichars' # vichars => OwnerOf(v, a) \/ Holds(v, a, "EDIT_VICHAR")
       /\ (v \in DOMAIN vichars /\ ~OwnerOf(v, a)
             /\ ~Holds(v, a, "EDIT_VICHAR"))
            => /\ UNCHANGED Database
               /\ IF Active(v) /\ IsCollaborator(v, a)
                  THEN IF HasNullRole(v, a)
                       THEN response'.kind = "error"
                       ELSE response'.detail =
                         "You do not have permission to edit this vichar."
                  ELSE response'.kind = "notfound"]_vars

C4_Witness ==
  /\ response.op = "update"
  /\ response.detail = "You do not have permission to edit this vichar."
  /\ IsCollaborator(Val(response.vichar), Val(response.actor))
  /\ vichars[Val(response.vichar)].updated_at = NULL

(* C7 as stated: addCollaborator with the owner as target fails with a     *)
(* ValidationError for every actor and creates no row.                     *)
C7_OwnerTargetAlwaysValidationError ==
  [][(/\ response'.op = "addCollaborator"
      /\ OwnerOf(Val(response'.vichar), Val(response'.target)))
     => response'.kind = "validation" /\ UNCHANGED Database]_vars

(* C7 amended: addCollaborator with the owner as target never creates a    *)
(* row; an actor who can locate the vichar (owner or collaborator of an    *)
(* active vichar) gets a ValidationError that is not the permission        *)
(* refusal, whatever the actor's permissions; any other actor gets         *)
(* not-found.                                                              *)
C7_OwnerTargetRejected ==
  [][(/\ response'.op = "addCollaborator"
      /\ OwnerOf(Val(response'.vichar), Val(response'.target)))
     => LET a == Val(response'.actor)
            v == Val(response'.vichar) IN
        /\ UNCHANGED Database
        /\ IF Active(v) /\ (OwnerOf(v, a) \/ IsCollaborator(v, a))
           THEN /\ response'.kind = "validation"
                /\ response'.detail \in
                     {"Owner cannot be a collaborator.",
                      "Invalid pk - object does not exist."}
           ELSE response'.kind = "notfound"]_vars

C7_Witness ==
  /\ response.op = "addCollaborator"
  /\ response.detail = "Owner cannot be a collaborator."
  /\ ~OwnerOf(Val(response.vichar), Val(response.actor))
  /\ ~Holds(Val(response.vichar), Val(response.actor), "ADD_COLLABORATOR")

(* C8 as stated: an authorised addCollaborator for a pair that already has *)
(* a row fails with a ValidationError and leaves the rows as they were.    *)
C8_DuplicateAlwaysValidationError ==
  [][(/\ response'.op = "addCollaborator"
      /\ IsCollaborator(Val(response'.vichar), Val(response'.target))
      /\ \/ OwnerOf(Val(response'.vichar), Val(response'.actor))
         \/ Holds(Val(response'.vichar), Val(response'.actor),
                  "ADD_COLLABORATOR"))
     => response'.kind = "validation" /\ UNCHANGED Database]_vars

(* C8 amended: an authorised addCollaborator for a pair that already has a *)
(* row never changes the rows; on an active vichar it fails with a         *)
(* ValidationError, which is "Collaborator already exists." when the role  *)
(* exists and the target is not the owner; on a soft-deleted vichar it     *)
(* ends in not-found; an owner who is also listed as a collaborator with a *)
(* null role may get the server error of the permission lookup instead.    *)
C8_DuplicateRejected ==
  [][(/\ response'.op = "addCollaborator"
      /\ IsCollaborator(Val(response'.vichar), Val(response'.target))
      /\ \/ OwnerOf(Val(response'.vichar), Val(response'.actor))
         \/ Holds(Val(response'.vichar), Val(response'.actor),
                  "ADD_COLLABORATOR"))
     => LET a == Val(response'.actor)
            v == Val(response'.vichar)
            t == Val(response'.target) IN
        /\ UNCHANGED Database
        /\ IF ~Active(v) THEN response'.kind = "notfound"
           ELSE IF HasNullRole(v, a)
           THEN response'.kind \in {"validation", "error"}
           ELSE /\ response'.kind = "validation"
                /\ ~Denied(response')
                /\ (/\ ~OwnerOf(v, t)
                    /\ response'.detail #
                         "Invalid pk - object does not exist.")
                   => response'.detail = "Collaborator already exists."]_vars

C8_Witness ==
  /\ response.op = "addCollaborator"
  /\ response.detail = "Collaborator already exists."
  /\ IsCollaborator(Val(response.vichar), Val(response.target))

(* C9: at most one Collaborator row per (vichar, collaborator) pair, also  *)
(* when addCollaborator requests interleave.                               *)
C9_OneRowPerPair ==
  \A c, d \in collaborators :
    (c.vichar = d.vichar /\ c.collaborator = d.collaborator) => c = d

C11_UpdateCollaboratorGate ==
  [][response'.op = "updateCollaborator" =>
       LET a == Val(response'.actor)
           v == Val(response'.vichar)
           t == Val(response'.target) IN
       /\ collaborators' # collaborators
            => OwnerOf(v, a) \/ Holds(v, a, "ADD_COLLABORATOR")
       /\ ~IsCollaborator(v, t)
            => /\ response'.kind \in {"notfound", "validation"}
               /\ collaborators' = collaborators]_vars

C15_CascadeIsAtomic ==
  [][/\ \A c \in collaborators' : c.vichar \in DOMAIN vichars'
     /\ \A v \in VicharIds :
          (/\ response'.op = "permanentDelete"
           /\ response'.vichar = Some(v)
           /\ response'.kind = "ok")
          => /\ v \in DOMAIN vichars /\ ~Active(v)
             /\ v \notin DOMAIN vichars'
             /\ \A c \in collaborators' : c.vichar # v
             /\ collaborators \ collaborators' =
                  {c \in collaborators : c.vichar = v}]_vars

C15_Witness ==
  /\ response.op = "permanentDelete"
  /\ response.kind = "ok"
  /\ Val(response.vichar) \notin DOMAIN vichars
  /\ collaborators = {}
  /\ \E req \in inflight : req.vichar = Val(response.vichar)

(* C16: on a soft-deleted vichar, restore clears deleted_at when the actor *)
(* is the owner or a collaborator whose role contains DELETE_VICHAR; for   *)
(* anyone else it ends in permission-denied and deleted_at stays set.      *)
C16_RestoreGate ==
  [][\A a \in Users, v \in VicharIds :
       (/\ response'.op = "restore"
        /\ response'.actor = Some(a)
        /\ response'.vichar = Some(v)
        /\ v \in DOMAIN vichars
        /\ ~Active(v))
       => IF OwnerOf(v, a) \/ Holds(v, a, "DELETE_VICHAR")
          THEN vichars'[v].deleted_at = NULL
          ELSE /\ response'.kind = "forbidden"
               /\ UNCHANGED Database]_vars

(* C17 as stated: softDelete on a vichar that is already soft-deleted, by  *)
(* the owner or a holder of DELETE_VICHAR, succeeds and re-stamps          *)
(* deleted_at with the new time.                                           *)
C17_SecondSoftDeleteRestamps ==
  [][\A a \in Users, v \in VicharIds :
       (/\ response'.op = "softDelete"
        /\ response'.actor = Some(a)
        /\ response'.vichar = Some(v)
        /\ v \in DOMAIN vichars
        /\ ~Active(v)
        /\ OwnerOf(v, a) \/ Holds(v, a, "DELETE_VICHAR"))
       => /\ response'.kind = "ok"
          /\ vichars'[v].deleted_at = Some(now)]_vars

(* C17 amended: softDelete changes something only for the owner or a       *)
(* holder of DELETE_VICHAR on an active vichar, and then it sets           *)
(* deleted_at to the current time and keeps the record and its rows;       *)
(* softDelete on a vichar that is already soft-deleted ends in not-found   *)
(* for every actor and deleted_at keeps its value.                         *)
C17_SoftDeleteGate ==
  [][\A a \in Users, v \in VicharIds :
       (/\ response'.op = "softDelete"
        /\ response'.actor = Some(a)
        /\ response'.vichar = Some(v))
       => /\ UNCHANGED <<collaborators, roles>>
          /\ DOMAIN vichars' = DOMAIN vichars
          /\ (vichars' # vichars \/ response'.kind = "ok")
               => /\ OwnerOf(v, a) \/ Holds(v, a, "DELETE_VICHAR")
                  /\ Active(v)
                  /\ response'.kind = "ok"
                  /\ vichars' =
                       [vichars EXCEPT ![v].deleted_at = Some(now)]
          /\ (v \in DOMAIN vichars /\ ~Active(v))
               => response'.kind = "notfound" /\ UNCHANGED Database]_vars

C17_Witness ==
  /\ response.op = "softDelete"
  /\ response.kind = "notfound"
  /\ OwnerOf(Val(response.vichar), Val(response.actor))
  /\ vichars[Val(response.vichar)].deleted_at = Some(1)
  /\ now = 2

Range(s) == {s[i] : i \in DOMAIN s}

NoDuplicates(s) == \A i, j \in DOMAIN s : s[i] = s[j] => i = j

RoleOps == {"createRole", "updateRole", "deleteRole"}

(* C21: a create, update or delete of a role succeeds, and changes the    *)
(* roles, only when the actor is staff; a request that succeeds when a     *)
(* staff actor makes it is answered with the permission refusal when an    *)
(* actor who is not staff makes it, and no request of an actor who is not  *)
(* staff changes the set of roles or a role's name or permissions.         *)
C21_StaffOnlyRoles ==
  [][response'.op \in RoleOps =>
       /\ response'.kind = "ok" => Val(response'.actor) \in StaffUsers
       /\ Val(response'.actor) \notin StaffUsers
            => UNCHANGED <<roles, collaborators>>
       /\ \A a \in Users \ StaffUsers, s \in StaffUsers :
            response'.actor = Some(a) =>
              /\ response'.op = "createRole" =>
                   \A name \in RoleNames, perms \in PermLists :
                     (/\ CreateRole(a, name, perms)
                      /\ ENABLED (CreateRole(s, name, perms)
                                    /\ response'.kind = "ok"))
                       => response'.kind = "forbidden"
              /\ response'.op = "updateRole" =>
                   \A rid \in RoleIds, name \in RoleNames,
                      perms \in PermLists :
                     (/\ UpdateRole(a, rid, name, perms)
                      /\ ENABLED (UpdateRole(s, rid, name, perms)
                                    /\ response'.kind = "ok"))
                       => response'.kind = "forbidden"
              /\ response'.op = "deleteRole" =>
                   \A rid \in RoleIds :
                     (/\ DeleteRole(a, rid)
                      /\ ENABLED (DeleteRole(s, rid)
                                    /\ response'.kind = "ok"))
                       => response'.kind = "forbidden"
    ]_vars

C21_Witness ==
  /\ response.op = "updateRole"
  /\ response.kind = "forbidden"
  /\ response.detail = "Only staff users can perform this action."
  /\ Val(response.actor) \notin StaffUsers
  /\ roles # << >>
  /\ collaborators # {}

(* C22: when the permission check of a vichar for a user who is not its    *)
(* owner turns from deny to allow, or that user becomes the owner, the     *)
(* step was requested by another actor, and that actor is the owner of the *)
(* vichar, a holder of ADD_COLLABORATOR on it, or staff creating or        *)
(* updating a role.                                                        *)
C22_NoSelfEscalation ==
  [][\A v \in DOMAIN vichars, u \in Users :
       (/\ v \in DOMAIN vichars'
        /\ ~OwnerOf(v, u)
        /\ \/ OwnerOf(v, u)'
           \/ \E P \in permissions :
                /\ validate_collaborator(v, u, P) = "deny"
                /\ validate_collaborator(v, u, P)' = "allow")
       => /\ response'.actor # NULL
          /\ Val(response'.actor) # u
          /\ \/ OwnerOf(v, Val(response'.actor))
             \/ Holds(v, Val(response'.actor), "ADD_COLLABORATOR")
             \/ /\ Val(response'.actor) \in StaffUsers
                /\ response'.op \in {"createRole", "updateRole"}]_vars

SoftDeleted(v) == v \in DOMAIN vichars /\ vichars[v].deleted_at # NULL

LocatingOps ==
  {"update", "softDelete", "addCollaborator", "updateCollaborator",
   "removeCollaborator"}

(* The rows of a vichar without their role references. *)
RowsOf(v) ==
  {[collaborator |-> c.collaborator, owner |-> c.owner, nth |-> c.nth] :
     c \in {d \in collaborators : d.vichar = v}}

====
